---- MODULE Spec2Model ----
(***************************************************************************)
(* Mandelbrot renderer: generate() in src/main.rs spawns options.threads   *)
(* workers that share one mutex-guarded row counter, clones one mpsc       *)
(* sender per worker, drops the template sender and then drains the        *)
(* channel into the output buffer while driving a 100-step progress bar.   *)
(* The worker loop and the escape-time kernel live in the library crate    *)
(* (mandelbrot::mandelbrot), which is not part of the source tree; they    *)
(* are modelled from the written specification.                            *)
(***************************************************************************)
EXTENDS Integers, Sequences, FiniteSets, TLC

\* ------------------------------------------------------------------ bounds
MaxSmall == 2        \* small images: width, height in 0..MaxSmall
MaxThreads == 2      \* options.threads in 0..MaxThreads
MaxIter == 2         \* options.max_iter in 1..MaxIter
MaxInFlight == 1     \* messages held by the (unbounded) channel at one time

\* ------------------------------------------------------- program constants
ProgressSteps == 100         \* ProgressBar::new(100) and the "/ 100" divisor

\* A u32 is kept as two 16-bit halves.
Word(hi, lo) == [hi |-> hi, lo |-> lo]

Placeholder == Word(0, 0)    \* vec![0; ...] pre-fill of the buffer

CurrentLineInitOff == 0 + 1
CurrentLineInit == 0         \* Mutex::new(0)

Workers == 0 .. (MaxThreads - 1)
None == -1               \* Option::None of a row or of a lock holder
NotEscaped == -1

VARIABLES
    options,        \* the Options value handed to generate (template, thread_id = None)
    spawned,        \* loop variable i of "for i in 0..options.threads"
    gen_pc,         \* generate: "spawn" | "drop_tx" | "recv" | "done" | "panicked"
    tx,             \* TRUE while the template sender is alive
    local_tx,       \* workers whose cloned sender is alive
    current_line,   \* the counter behind Arc<Mutex<_>>
    lock,           \* holder of the mutex, or None when free
    wpc,            \* worker: "idle" | "claim" | "locked" | "row" | "exit" | "done" | "dead"
    row,            \* worker: the row it claimed
    col,            \* worker: next x of that row
    rx,             \* the channel: sequence of <<index, colour>>
    out,            \* the output buffer (main's buffer, borrowed mutably)
    pos,            \* received-message counter
    ticks,          \* number of pb.inc() calls
    img,            \* the RgbImage main builds from the buffer
    px,             \* position of enumerate_pixels_mut
    writes,         \* history: number of writes per buffer slot
    handed,         \* history: rows each worker received from the dispatcher
    local_options,  \* worker: its private copy of options (thread_id set)
    alloc           \* main's allocation over full 32-bit dimensions (32-bit product runs)

vars == <<options, spawned, gen_pc, tx, local_tx, current_line, lock, wpc, row,
          col, rx, out, pos, ticks, img, px, writes, handed, local_options, alloc>>

\* ----------------------------------------------------------- configurations
LargeWidth == ProgressSteps \div 2 + 1

SmallConfigurations ==
    [width : 0 .. MaxSmall, height : 0 .. MaxSmall, max_iter : 1 .. MaxIter,
     samples : {1}, threads : 0 .. MaxThreads, colourise : {FALSE},
     centrex : {0}, centrey : {0}, thread_id : {None}, scaley : {0, 2}]

\* the smallest two-row image with at least ProgressSteps pixels; the tinted
\* variant runs with two workers
LargeConfigurations ==
    [width : {LargeWidth}, height : {2}, max_iter : {MaxIter},
     samples : {1}, threads : 0 .. MaxThreads, colourise : {FALSE},
     centrex : {0}, centrey : {0}, thread_id : {None}, scaley : {2}]
    \cup
    [width : {LargeWidth}, height : {2}, max_iter : {MaxIter},
     samples : {1}, threads : {2}, colourise : {TRUE},
     centrex : {0}, centrey : {0}, thread_id : {None}, scaley : {2}]

Configurations == SmallConfigurations \cup LargeConfigurations

Valid(o) ==
    /\ o.width >= 1 /\ o.height >= 1 /\ o.max_iter >= 1
    /\ o.samples >= 1 /\ o.threads >= 1

\* ------------------------------------------------------------------ kernel
\* bits 0-7 red, 8-15 green, 16-23 blue, 24-31 unused
Rgb(r, g, b) == Word(b, r + 256 * g)

InSetColour == Rgb(0, 0, 0)

\* z = (zr + zi*i) / dz, c = (cr + ci*i) / d, dz a power of d
RECURSIVE Escape(_, _, _, _, _, _, _, _)
Escape(zr, zi, dz, cr, ci, d, n, max_iter) ==
    IF zr * zr + zi * zi > 4 * dz * dz THEN n
    ELSE IF n = max_iter THEN NotEscaped
    ELSE Escape(zr * zr - zi * zi + cr * ((dz * dz) \div d),
                2 * zr * zi + ci * ((dz * dz) \div d),
                dz * dz, cr, ci, d, n + 1, max_iter)

\* u = (x/width - 0.5) * 2 * scale_x with scale_x = scaley * width / height,
\* that is u = (2x - width) * scaley / height; likewise v.
EscapeCount(x, y, o) ==
    Escape(0, 0, o.height,
           o.centrex * o.height + (2 * x - o.width) * o.scaley,
           o.centrey * o.height + (2 * y - o.height) * o.scaley,
           o.height, 0, o.max_iter)

Palette(n, max_iter) ==
    IF n = NotEscaped THEN InSetColour
    ELSE LET g == (255 * n) \div max_iter IN Rgb(g, g, g)

\* the red channel is replaced by a value keyed by the worker
Tint(colour, id) ==
    Word(colour.hi, (colour.lo - (colour.lo % 256)) + (((id + 1) * 85) % 256))

Kernel(x, y, o, id) ==
    LET c == Palette(EscapeCount(x, y, o), o.max_iter)
    IN IF o.colourise THEN Tint(c, id) ELSE c

\* ---------------------------------------------------------------- generate
BufferLen(o) == o.width * o.height

ProgressDivisor(o) == (o.width * o.height) \div ProgressSteps

NoImage == << >>

\* ------------------------------------------------------- 32-bit arithmetic
\* a u32 as its four bytes, least significant first
Zero32 == <<0, 0, 0, 0>>
One32 == <<1, 0, 0, 0>>

Digit(a, i) == IF i \in DOMAIN a THEN a[i] ELSE 0

\* the sum of the byte products of weight 256^k
Column(a, b, k) ==
    Digit(a, 1) * Digit(b, k + 1) + Digit(a, 2) * Digit(b, k)
      + Digit(a, 3) * Digit(b, k - 1) + Digit(a, 4) * Digit(b, k - 2)

RECURSIVE Propagate(_, _, _, _)
Propagate(a, b, k, carry) ==
    IF k = 8 THEN << >>
    ELSE LET s == Column(a, b, k) + carry
         IN <<s % 256>> \o Propagate(a, b, k + 1, s \div 256)

\* the full 64-bit product of two u32, as eight bytes
WideProduct(a, b) == Propagate(a, b, 0, 0)

\* u32 * u32 of a release build: the low 32 bits
WrappingMul(a, b) == SubSeq(WideProduct(a, b), 1, 4)

\* u32 * u32 of a debug build panics when the high 32 bits are not zero
MulOverflows(a, b) == SubSeq(WideProduct(a, b), 5, 8) # Zero32

RECURSIVE AddFrom(_, _, _, _)
AddFrom(a, b, k, carry) ==
    IF k = 5 THEN << >>
    ELSE LET s == a[k] + b[k] + carry
         IN <<s % 256>> \o AddFrom(a, b, k + 1, s \div 256)

\* u32 + u32, wrapping
WrappingAdd(a, b) == AddFrom(a, b, 1, 0)

RECURSIVE LessFrom(_, _, _)
LessFrom(a, b, k) ==
    IF k = 0 THEN FALSE
    ELSE IF a[k] # b[k] THEN a[k] < b[k]
    ELSE LessFrom(a, b, k - 1)

\* a < b on u32
Less(a, b) == LessFrom(a, b, 4)

\* runs of the small model never use the 32-bit allocation record
NoAlloc ==
    [pc |-> "unused", width |-> Zero32, height |-> Zero32, len |-> Zero32,
     i |-> Zero32]

Init ==
    /\ options \in Configurations
    /\ spawned = 0
    /\ gen_pc = "spawn"
    /\ tx = TRUE
    /\ local_tx = {}
    /\ current_line = CurrentLineInit
    /\ lock = None
    /\ wpc = [w \in Workers |-> "idle"]
    /\ row = [w \in Workers |-> None]
    /\ col = [w \in Workers |-> 0]
    /\ rx = << >>
    /\ out = [i \in 0 .. (BufferLen(options) - 1) |-> Placeholder]
    /\ pos = 0
    /\ ticks = 0
    /\ img = NoImage
    /\ px = 0
    /\ writes = [i \in 0 .. (BufferLen(options) - 1) |-> 0]
    /\ handed = [w \in Workers |-> << >>]
    /\ local_options = << >>
    /\ alloc = NoAlloc

\* a panic of the main thread ends the process, workers included
Running == gen_pc \in {"spawn", "drop_tx", "recv"}

\* let mut local_options = options; local_options.thread_id = Some(i);
LocalOptionsUnset(o, i) == o
LocalOptions(o, i) == [o EXCEPT !.thread_id = i]

\* for i in 0..options.threads { copy options, clone tx, clone the Arc, thread::spawn }
Spawn ==
    /\ gen_pc = "spawn"
    /\ spawned < options.threads
    /\ local_options' = local_options @@ (spawned :> LocalOptions(options, spawned))
    /\ wpc' = [wpc EXCEPT ![spawned] = "claim"]
    /\ local_tx' = local_tx \cup {spawned}
    /\ spawned' = spawned + 1
    /\ UNCHANGED <<options, gen_pc, tx, current_line, lock, row, col, rx, out,
                   pos, ticks, img, px, writes, handed, alloc>>

SpawnDone ==
    /\ gen_pc = "spawn"
    /\ spawned >= options.threads
    /\ gen_pc' = "drop_tx"
    /\ UNCHANGED <<options, spawned, tx, local_tx, current_line, lock, wpc, row,
                   col, rx, out, pos, ticks, img, px, writes, handed, local_options,
                   alloc>>

\* generate without the drop(tx) of line 39: the original sender stays alive
DropTxForgotten ==
    /\ gen_pc = "drop_tx"
    /\ gen_pc' = "recv"
    /\ UNCHANGED <<options, spawned, tx, local_tx, current_line, lock, wpc, row,
                   col, rx, out, pos, ticks, img, px, writes, handed, local_options,
                   alloc>>

\* drop(tx)
DropTx ==
    /\ gen_pc = "drop_tx"
    /\ tx' = FALSE
    /\ gen_pc' = "recv"
    /\ UNCHANGED <<options, spawned, local_tx, current_line, lock, wpc, row,
                   col, rx, out, pos, ticks, img, px, writes, handed, local_options,
                   alloc>>

\* ------------------------------------------------------------------ worker
\* claim(): acquire the mutex
Lock(w) ==
    /\ Running
    /\ wpc[w] = "claim"
    /\ lock = None
    /\ lock' = w
    /\ wpc' = [wpc EXCEPT ![w] = "locked"]
    /\ UNCHANGED <<options, spawned, gen_pc, tx, local_tx, current_line, row,
                   col, rx, out, pos, ticks, img, px, writes, handed, local_options,
                   alloc>>

\* claim(): under the mutex, take the counter as the row if it is < height
Claim(w) ==
    /\ Running
    /\ wpc[w] = "locked"
    /\ lock = w
    /\ lock' = None
    /\ IF current_line < options.height
       THEN /\ row' = [row EXCEPT ![w] = current_line]
            /\ col' = [col EXCEPT ![w] = 0]
            /\ current_line' = current_line + 1
            /\ handed' = [handed EXCEPT ![w] = Append(@, current_line)]
            /\ wpc' = [wpc EXCEPT ![w] = IF options.width = 0 THEN "claim" ELSE "row"]
       ELSE /\ wpc' = [wpc EXCEPT ![w] = "exit"]
            /\ UNCHANGED <<row, col, current_line, handed>>
    /\ UNCHANGED <<options, spawned, gen_pc, tx, local_tx, rx, out, pos, ticks,
                   img, px, writes, local_options,
                   alloc>>

PixelIndex(x, y, o) == y * o.width + x

\* push (y*width + x, colour) for the next x of the claimed row
Send(w) ==
    /\ Running
    /\ wpc[w] = "row"
    /\ Len(rx) < MaxInFlight
    /\ rx' = Append(rx, <<PixelIndex(col[w], row[w], local_options[w]),
                          Kernel(col[w], row[w], local_options[w],
                                 local_options[w].thread_id)>>)
    /\ col' = [col EXCEPT ![w] = @ + 1]
    /\ wpc' = [wpc EXCEPT ![w] = IF col[w] + 1 = options.width THEN "claim" ELSE "row"]
    /\ UNCHANGED <<options, spawned, gen_pc, tx, local_tx, current_line, lock,
                   row, out, pos, ticks, img, px, writes, handed, local_options,
                   alloc>>

\* claim() yielded nothing: the worker returns and its sender is dropped
Disconnect(w) ==
    /\ Running
    /\ wpc[w] = "exit"
    /\ local_tx' = local_tx \ {w}
    /\ wpc' = [wpc EXCEPT ![w] = "done"]
    /\ UNCHANGED <<options, spawned, gen_pc, tx, current_line, lock, row, col,
                   rx, out, pos, ticks, img, px, writes, handed, local_options,
                   alloc>>

\* a worker panics inside a row: its thread unwinds and drops its sender
Crash(w) ==
    /\ Running
    /\ wpc[w] = "row"
    /\ local_tx' = local_tx \ {w}
    /\ wpc' = [wpc EXCEPT ![w] = "dead"]
    /\ UNCHANGED <<options, spawned, gen_pc, tx, current_line, lock, row, col,
                   rx, out, pos, ticks, img, px, writes, handed, local_options,
                   alloc>>

\* -------------------------------------------------------------- aggregator
\* the iterator over rx ends: no message left and every sender dropped
EndOfStreamEarly == rx = << >>
EndOfStream == rx = << >> /\ ~tx /\ local_tx = {}

\* out[i as usize]
SlotByArrival(i, p) == p - 1
Slot(i, p) == i

\* pos % (width * height / 100) == 0
TickDue(p, o) == p % ProgressDivisor(o) = 0

\* the remainder by zero and the out-of-bounds index both panic
ReceivePanics(i, p) == ProgressDivisor(options) = 0 \/ Slot(i, p) \notin DOMAIN out

Receive ==
    /\ gen_pc = "recv"
    /\ rx # << >>
    /\ LET i == Head(rx)[1]
           val == Head(rx)[2]
       IN /\ ~ReceivePanics(i, pos + 1)
          /\ ticks' = IF TickDue(pos + 1, options) THEN ticks + 1 ELSE ticks
          /\ out' = [out EXCEPT ![Slot(i, pos + 1)] = val]
          /\ writes' = [writes EXCEPT ![Slot(i, pos + 1)] = @ + 1]
    /\ pos' = pos + 1
    /\ rx' = Tail(rx)
    /\ UNCHANGED <<options, spawned, gen_pc, tx, local_tx, current_line, lock,
                   wpc, row, col, img, px, handed, local_options,
                   alloc>>

ReceivePanic ==
    /\ gen_pc = "recv"
    /\ rx # << >>
    /\ ReceivePanics(Head(rx)[1], pos + 1)
    /\ pos' = pos + 1
    /\ rx' = Tail(rx)
    /\ gen_pc' = "panicked"
    /\ UNCHANGED <<options, spawned, tx, local_tx, current_line, lock, wpc, row,
                   col, out, ticks, img, px, writes, handed, local_options,
                   alloc>>

BlankImage(o) ==
    [p \in (0 .. (o.width - 1)) \X (0 .. (o.height - 1)) |-> <<0, 0, 0>>]

\* the loop over rx ends, generate returns, main creates the blank image
Finish ==
    /\ gen_pc = "recv"
    /\ EndOfStream
    /\ gen_pc' = "done"
    /\ img' = BlankImage(options)
    /\ UNCHANGED <<options, spawned, tx, local_tx, current_line, lock, wpc, row,
                   col, rx, out, pos, ticks, px, writes, handed, local_options,
                   alloc>>

\* ------------------------------------------------------------ image step
\* (w & 0x000000ff), (w & 0x0000ff00) >> 8, (w & 0x00ff0000) >> 16
UnpackBgr(w) == <<w.hi % 256, w.lo \div 256, w.lo % 256>>
Unpack(w) == <<w.lo % 256, w.lo \div 256, w.hi % 256>>

\* buffer[y * width + x]
BufferIndex(x, y, o) == y * o.width + x

\* enumerate_pixels_mut walks the image row by row
PixelAt(k, o) == <<k % o.width, k \div o.width>>

DecodePixel ==
    /\ gen_pc = "done"
    /\ px < options.width * options.height
    /\ LET p == PixelAt(px, options)
       IN img' = [img EXCEPT ![p] = Unpack(out[BufferIndex(p[1], p[2], options)])]
    /\ px' = px + 1
    /\ UNCHANGED <<options, spawned, gen_pc, tx, local_tx, current_line, lock,
                   wpc, row, col, rx, out, pos, ticks, writes, handed, local_options,
                   alloc>>

\* ----------------------------------------------------------- specifications
WorkerStep ==
    \E w \in Workers : Lock(w) \/ Claim(w) \/ Send(w) \/ Disconnect(w)

GenerateStep ==
    \/ Spawn \/ SpawnDone \/ DropTx
    \/ WorkerStep
    \/ Receive \/ ReceivePanic \/ Finish

Next == GenerateStep \/ DecodePixel

Spec == Init /\ [][Next]_vars

\* generate, where a worker may also panic inside a row
NextCrash == GenerateStep \/ \E w \in Workers : Crash(w)

SpecCrash == Init /\ [][NextCrash]_vars

\* the image step alone, on buffers holding arbitrary 32-bit words: one byte
\* of the first word takes every value, the other three are all-zeros or all-ones
Bytes == 0 .. 255
ExtremeBytes == {0, 255}

ByteSeeds ==
    [r : Bytes, g : ExtremeBytes, b : ExtremeBytes, t : ExtremeBytes]
    \cup [r : ExtremeBytes, g : Bytes, b : ExtremeBytes, t : ExtremeBytes]
    \cup [r : ExtremeBytes, g : ExtremeBytes, b : Bytes, t : ExtremeBytes]
    \cup [r : ExtremeBytes, g : ExtremeBytes, b : ExtremeBytes, t : Bytes]

Pack(r, g, b, t) == Word(b + 256 * t, r + 256 * g)

ImageConfigurations ==
    [width : 1 .. MaxSmall, height : 1 .. MaxSmall, max_iter : {1},
     samples : {1}, threads : {1}, colourise : {FALSE},
     centrex : {0}, centrey : {0}, thread_id : {None}, scaley : {0}]

InitImage ==
    /\ options \in ImageConfigurations
    /\ \E s \in ByteSeeds :
          out = [k \in 0 .. (BufferLen(options) - 1) |->
                    Pack((s.r + k) % 256, (s.g + 2 * k) % 256, (s.b + 3 * k) % 256, s.t)]
    /\ gen_pc = "done"
    /\ img = BlankImage(options)
    /\ px = 0
    /\ spawned = options.threads
    /\ tx = FALSE
    /\ local_tx = {}
    /\ current_line = options.height
    /\ lock = None
    /\ wpc = [w \in Workers |-> IF w < options.threads THEN "done" ELSE "idle"]
    /\ row = [w \in Workers |-> None]
    /\ col = [w \in Workers |-> 0]
    /\ rx = << >>
    /\ pos = BufferLen(options)
    /\ ticks = 0
    /\ writes = [i \in 0 .. (BufferLen(options) - 1) |-> 1]
    /\ handed = [w \in Workers |-> << >>]
    /\ local_options = [w \in 0 .. (options.threads - 1) |-> LocalOptions(options, w)]
    /\ alloc = NoAlloc

SpecImage == InitImage /\ [][DecodePixel]_vars

\* ------------------------------------------------- the 32-bit product runs
\* widths and heights over the whole u32 range: 1, 2, 51, 2^16 - 1, 2^16,
\* 2^16 + 1, 2^31 and 2^32 - 1
Dimensions ==
    {<<1, 0, 0, 0>>, <<2, 0, 0, 0>>, <<51, 0, 0, 0>>, <<255, 255, 0, 0>>,
     <<0, 0, 1, 0>>, <<1, 0, 1, 0>>, <<0, 0, 0, 128>>, <<255, 255, 255, 255>>}

InitProduct ==
    /\ alloc \in [pc : {"start"}, width : Dimensions, height : Dimensions,
                  len : {Zero32}, i : {Zero32}]
    /\ options = [width |-> 0, height |-> 0, max_iter |-> 1, samples |-> 1,
                  threads |-> 1, colourise |-> FALSE, centrex |-> 0,
                  centrey |-> 0, thread_id |-> None, scaley |-> 0]
    /\ spawned = 0
    /\ gen_pc = "spawn"
    /\ tx = TRUE
    /\ local_tx = {}
    /\ current_line = CurrentLineInit
    /\ lock = None
    /\ wpc = [w \in Workers |-> "idle"]
    /\ row = [w \in Workers |-> None]
    /\ col = [w \in Workers |-> 0]
    /\ rx = << >>
    /\ out = << >>
    /\ pos = 0
    /\ ticks = 0
    /\ img = NoImage
    /\ px = 0
    /\ writes = << >>
    /\ handed = [w \in Workers |-> << >>]
    /\ local_options = << >>

ProductFrame ==
    UNCHANGED <<options, spawned, gen_pc, tx, local_tx, current_line, lock, wpc,
                row, col, rx, out, pos, ticks, img, px, writes, handed,
                local_options>>

\* vec![0; (options.width * options.height) as usize], release build
AllocWrapping ==
    /\ alloc.pc = "start"
    /\ alloc' = [alloc EXCEPT !.pc = "allocated",
                              !.len = WrappingMul(alloc.width, alloc.height)]
    /\ ProductFrame

\* the same line in a debug build: the multiplication is overflow-checked
AllocChecked ==
    /\ alloc.pc = "start"
    /\ alloc' = IF MulOverflows(alloc.width, alloc.height)
                THEN [alloc EXCEPT !.pc = "overflow_panic"]
                ELSE [alloc EXCEPT !.pc = "allocated",
                                   !.len = WrappingMul(alloc.width, alloc.height)]
    /\ ProductFrame

\* a worker emits the index y * width + x of a pixel of the image
EmitIndex(x, y) ==
    /\ alloc.pc = "allocated"
    /\ Less(x, alloc.width) /\ Less(y, alloc.height)
    /\ alloc' = [alloc EXCEPT !.pc = "sent",
                              !.i = WrappingAdd(WrappingMul(y, alloc.width), x)]
    /\ ProductFrame

\* out[i as usize] = val: the index is bounds-checked against the buffer
WriteIndex ==
    /\ alloc.pc = "sent"
    /\ alloc' = [alloc EXCEPT !.pc = IF Less(alloc.i, alloc.len)
                                     THEN "written" ELSE "index_panic"]
    /\ ProductFrame

NextProduct ==
    \/ AllocWrapping
    \/ AllocChecked
    \/ \E x, y \in {Zero32, One32} : EmitIndex(x, y)
    \/ WriteIndex

SpecProduct == InitProduct /\ [][NextProduct]_vars


\* ------------------------------------------------------------------ claims
Terminated == gen_pc \in {"done", "panicked"}

Slots == 0 .. (options.width * options.height - 1)

\* C1: for a valid configuration, when generate has returned the buffer has
\* exactly width*height slots and the aggregator wrote each of them exactly once.
C1_BufferWrittenOnce ==
    (gen_pc = "done" /\ Valid(options)) =>
        /\ DOMAIN out = Slots
        /\ \A i \in Slots : writes[i] = 1

C1_Witness ==
    /\ gen_pc = "done" /\ Valid(options)
    /\ options.width * options.height >= ProgressSteps
    /\ handed[0] # << >> /\ handed[1] # << >>
    /\ \A i \in Slots : writes[i] = 1

\* number of times the dispatcher handed out row r
TimesHanded(r) ==
    Cardinality({p \in Workers \X (1 .. options.height) :
                    p[2] <= Len(handed[p[1]]) /\ handed[p[1]][p[2]] = r})

AllWorkersExited ==
    /\ spawned = options.threads
    /\ \A w \in Workers : w < options.threads => wpc[w] \in {"exit", "done"}

\* C2: no row is handed out twice, no two workers are ever inside the same row,
\* and once every worker of a run with at least one worker has left its claim
\* loop every row 0..height-1 has been handed out exactly once.
C2_RowsHandedOnce ==
    /\ \A w \in Workers : \A k \in 1 .. Len(handed[w]) :
          handed[w][k] \in 0 .. (options.height - 1)
    /\ \A r \in 0 .. (options.height - 1) : TimesHanded(r) <= 1
    /\ \A v, w \in Workers :
          (v # w /\ wpc[v] = "row" /\ wpc[w] = "row") => row[v] # row[w]
    /\ (options.threads >= 1 /\ AllWorkersExited) =>
          \A r \in 0 .. (options.height - 1) : TimesHanded(r) = 1

C2_Witness ==
    /\ options.threads = 2 /\ options.height = 2 /\ options.width >= 1
    /\ AllWorkersExited
    /\ handed[0] = <<1>> /\ handed[1] = <<0>>

\* what the kernel alone gives for every pixel (no tint)
ExpectedBuffer(o) ==
    [i \in 0 .. (o.width * o.height - 1) |->
        Palette(EscapeCount(i % o.width, i \div o.width, o), o.max_iter)]

\* the worker that was handed row y
RowOwner(y) ==
    CHOOSE w \in Workers : \E k \in 1 .. Len(handed[w]) : handed[w][k] = y

\* the returned buffer of a run with colourise off is the kernel's value per pixel
FinalBufferIsKernel ==
    (gen_pc = "done" /\ Valid(options) /\ ~options.colourise) =>
        out = ExpectedBuffer(options)

\* a step that writes slot i leaves in it the kernel's value for pixel i
WriteStoresKernel ==
    writes' # writes =>
    \A i \in Slots :
        writes'[i] # writes[i] =>
            /\ ~options.colourise =>
                  out'[i] = Palette(EscapeCount(i % options.width,
                                                i \div options.width, options),
                                    options.max_iter)
            /\ out'[i] = Kernel(i % options.width, i \div options.width, options,
                                RowOwner(i \div options.width))

\* C3: with colourise off, the buffer generate returns is the same for every
\* thread count and every interleaving: it is the kernel's value per pixel, and
\* every write stores that value in its slot, whatever arrived before.
\* (With colourise on a slot depends on the partition only through the id of
\* the worker that was handed its row.)
C3_BufferFunctionOfConfig ==
    [](FinalBufferIsKernel) /\ [][WriteStoresKernel]_vars

C3_Witness ==
    /\ gen_pc = "done" /\ Valid(options) /\ ~options.colourise
    /\ options.threads = 2
    /\ handed[0] = <<1>> /\ handed[1] = <<0>>
    /\ \E i, j \in Slots : out[i] # out[j]

\* C4 as claimed: for a valid configuration the drain loop is left only when
\* every sender has been dropped and every sent message has been received.
C4_DrainEndsOnlyOnDisconnect ==
    (Terminated /\ Valid(options)) =>
        /\ gen_pc = "done"
        /\ ~tx /\ local_tx = {} /\ rx = << >>
        /\ \A w \in Workers : wpc[w] \notin {"claim", "locked", "row", "exit"}

IsBoundaryScenario(o) ==
    /\ o.width = 2 /\ o.height = 2 /\ o.max_iter = 1 /\ o.samples = 1
    /\ o.centrex = 0 /\ o.centrey = 0 /\ o.scaley = 2 /\ o.threads >= 1

\* C5 as claimed: the 2x2 boundary run completes and every one of its four
\* pixels holds the escaped colour, none the in-set colour.
C5_BoundaryAllEscaped ==
    (Terminated /\ IsBoundaryScenario(options)) =>
        /\ gen_pc = "done"
        /\ \A i \in Slots :
              writes[i] = 1 /\ out[i] = Palette(1, 1) /\ out[i] # InSetColour

IsInSetScenario(o) ==
    /\ o.width = 1 /\ o.height = 1 /\ o.samples = 1 /\ o.threads >= 1
    /\ o.centrex = 0 /\ o.centrey = 0 /\ o.scaley = 0

\* C6 as claimed: the 1x1 run on c = 0 completes and its single slot was
\* written with the in-set colour, for every max_iter.
C6_InSetPixel ==
    (Terminated /\ IsInSetScenario(options)) =>
        /\ gen_pc = "done"
        /\ writes[0] = 1 /\ out[0] = InSetColour

\* C7: every pixel the image step has decoded is (r, g, b) where the buffer
\* slot y*width + x holds r | g<<8 | b<<16 | t<<24, t being its top byte.
C7_UnpackLayout ==
    gen_pc = "done" =>
        \A k \in 0 .. (px - 1) :
            LET p == PixelAt(k, options)
                c == img[p]
            IN /\ c[1] \in 0 .. 255 /\ c[2] \in 0 .. 255 /\ c[3] \in 0 .. 255
               /\ LET word == out[p[2] * options.width + p[1]]
                      t == word.hi \div 256
                  IN t \in 0 .. 255 /\ word = Pack(c[1], c[2], c[3], t)

C7_Witness ==
    /\ gen_pc = "done"
    /\ options.width = 2 /\ options.height = 2 /\ px = 4
    /\ out[2].hi \div 256 = 255
    /\ img[<<0, 1>>] = <<2, 204, 5>>
    /\ img[<<1, 0>>] # img[<<0, 1>>]

\* C8 as claimed: a completed run of a valid configuration has signalled
\* exactly 100 progress ticks.
C8_HundredTicks ==
    (gen_pc = "done" /\ Valid(options)) => ticks = ProgressSteps

\* slots of the row a dead worker was in that it had not yet emitted
Unemitted ==
    {i \in Slots : \E w \in Workers :
        /\ wpc[w] = "dead"
        /\ i \div options.width = row[w]
        /\ i % options.width >= col[w]}

\* slots of rows that were handed out, the unemitted ones excepted
Emitted ==
    {i \in Slots : TimesHanded(i \div options.width) = 1} \ Unemitted

\* C9 as claimed: after a worker died inside a row the aggregator still ends
\* normally, the pixels the dead worker did not emit keep the placeholder and
\* every other pixel of a claimed row has been written exactly once.
C9_CrashLeavesRowUnwritten ==
    (Terminated /\ Valid(options) /\ \E w \in Workers : wpc[w] = "dead") =>
        /\ gen_pc = "done"
        /\ \A i \in Unemitted : writes[i] = 0 /\ out[i] = Placeholder
        /\ \A i \in Emitted : writes[i] = 1

\* C10 as claimed: with thread_count = 0 and width, height >= 1 generate does
\* not return normally with a buffer of untouched placeholders.
C10_ZeroThreadsFailsFast ==
    (options.threads = 0 /\ options.width >= 1 /\ options.height >= 1) =>
        ~(gen_pc = "done" /\ \A i \in Slots : writes[i] = 0 /\ out[i] = Placeholder)

\* the counter stays within 0..height
CounterInRange == 0 <= current_line /\ current_line <= options.height

\* the step in which the holder of the mutex finishes its claim
ClaimReturns == lock # None /\ lock' = None

\* the counter moves only by a claim, by exactly one, handing out its old value;
\* a claim made at height or above hands out nothing and leaves it alone
CounterStep ==
    /\ current_line' >= current_line
    /\ current_line' # current_line => ClaimReturns /\ current_line < options.height
    /\ (ClaimReturns /\ current_line < options.height) =>
          /\ current_line' = current_line + 1
          /\ handed' = [handed EXCEPT ![lock] = Append(@, current_line)]
    /\ (ClaimReturns /\ current_line >= options.height) =>
          /\ current_line' = current_line
          /\ handed' = handed
          /\ wpc'[lock] = "exit"

\* C11: the dispatcher counter starts at 0, always satisfies 0 <= c <= height,
\* never decreases, is incremented by exactly 1 by a claim that returns its old
\* value (c < height) and is left unchanged by a claim that returns nothing
\* (c >= height), so once it equals height every later claim returns nothing.
C11_CounterLifecycle ==
    current_line = 0 /\ [](CounterInRange) /\ [][CounterStep]_vars

C11_Witness ==
    /\ options.height = 2 /\ options.threads = 2
    /\ current_line = options.height
    /\ wpc[0] = "exit" /\ Len(handed[0]) = 1
    /\ wpc[1] = "done" /\ Len(handed[1]) = 1

\* C12: generate spawns exactly options.threads workers; the i-th worker's
\* private copy of the options has thread_id = Some(i) with 0 <= i < threads,
\* the ids are pairwise distinct, every other field equals the template's, and
\* the template's thread_id stays None.
C12_WorkerIdentities ==
    /\ options.thread_id = None
    /\ spawned <= options.threads
    /\ DOMAIN local_options = 0 .. (spawned - 1)
    /\ {w \in Workers : wpc[w] # "idle"} = 0 .. (spawned - 1)
    /\ gen_pc # "spawn" => spawned = options.threads
    /\ \A i \in DOMAIN local_options :
          /\ local_options[i].thread_id = i
          /\ 0 <= i /\ i < options.threads
          /\ [local_options[i] EXCEPT !.thread_id = None] = options
    /\ \A i, j \in DOMAIN local_options :
          i # j => local_options[i].thread_id # local_options[j].thread_id

C12_Witness ==
    /\ gen_pc = "recv"
    /\ options.threads = 2 /\ spawned = 2
    /\ local_options[0].thread_id = 0 /\ local_options[1].thread_id = 1
    /\ options.thread_id = None

\* a step that touches the buffer is the aggregator receiving the head message
\* <<i, val>> and storing val in slot i, and in no other slot
BufferWrittenByReceive ==
    (out' # out \/ writes' # writes) =>
        /\ gen_pc = "recv" /\ rx # << >>
        /\ rx' = Tail(rx)
        /\ out' = [out EXCEPT ![Head(rx)[1]] = Head(rx)[2]]
        /\ writes' = [writes EXCEPT ![Head(rx)[1]] = @ + 1]

\* worker w takes a step of its loop (claim, send, disconnect)
WorkerMoves(w) ==
    wpc[w] # "idle" /\ (wpc'[w] # wpc[w] \/ col'[w] # col[w] \/ row'[w] # row[w])

\* a worker's step leaves the buffer, the aggregator and the other workers
\* alone; outside itself it touches the counter and its mutex, appends to the
\* channel and drops its own sender
WorkerFrame ==
    \A w \in Workers :
        WorkerMoves(w) =>
            /\ out' = out /\ writes' = writes
            /\ pos' = pos /\ ticks' = ticks /\ gen_pc' = gen_pc
            /\ options' = options /\ local_options' = local_options
            /\ \A v \in Workers \ {w} :
                  /\ wpc'[v] = wpc[v] /\ row'[v] = row[v] /\ col'[v] = col[v]
                  /\ handed'[v] = handed[v]
            /\ local_tx' \subseteq local_tx /\ (local_tx \ local_tx') \subseteq {w}
            /\ rx' = rx \/ (Len(rx') = Len(rx) + 1 /\ SubSeq(rx', 1, Len(rx)) = rx)

\* C13: the buffer is single-writer: every change of a slot is made by the
\* aggregator step that receives (index, colour), changing only that slot to
\* that colour; worker steps leave the buffer unchanged and share only the
\* dispatcher counter (and the channel they send on).
C13_SingleWriter ==
    [][BufferWrittenByReceive /\ WorkerFrame]_vars

C13_Witness ==
    /\ options.threads = 2
    /\ wpc[0] = "row" /\ wpc[1] = "row"
    /\ \E i \in Slots : writes[i] = 1 /\ i \div options.width = row[1]
    /\ \E i \in Slots : writes[i] = 1 /\ i \div options.width = row[0]

\* the main thread of generate: spawning, dropping tx, then draining rx
AggregatorStep ==
    Spawn \/ SpawnDone \/ DropTx \/ Receive \/ ReceivePanic \/ Finish

\* the holder of the dispatcher lock is inside claim(), between acquire and
\* release: it is neither sending nor acquiring
LockHeldOnlyInClaim ==
    \A w \in Workers :
        lock = w => /\ wpc[w] = "locked"
                    /\ \A v \in Workers \ {w} : wpc[v] # "locked"

WorkerCanStep(w) == ENABLED (Lock(w) \/ Claim(w) \/ Send(w) \/ Disconnect(w))

\* a live worker that cannot step is waiting for the lock another worker
\* holds (the channel of the program is unbounded: a send never blocks; the
\* model lets a sender wait only while MaxInFlight messages are undelivered,
\* and then the aggregator can step)
WorkerBlocksOnlyOnLock(agg) ==
    \A w \in Workers :
        (Running /\ wpc[w] \in {"claim", "locked", "row", "exit"}
           /\ ~WorkerCanStep(w)) =>
              \/ wpc[w] = "claim" /\ lock \in Workers \ {w}
              \/ wpc[w] = "row" /\ Len(rx) = MaxInFlight /\ agg

\* the drain loop waits only for a message of a sender that still exists
AggregatorBlocksOnlyOnEmptyChannel(agg) ==
    (gen_pc = "recv" /\ ~agg) =>
        /\ rx = << >>
        /\ local_tx # {}
        /\ \A w \in local_tx : wpc[w] \in {"claim", "locked", "row", "exit"}

\* C14: the run is deadlock-free: the dispatcher lock is the only lock and is
\* never held while acquiring a lock or blocked on the channel; in every
\* state before the end of generate a worker or the aggregator can step; the
\* aggregator blocks only on an empty channel with a sender connected, a
\* worker only while another worker holds the lock.
C14_DeadlockFree ==
    LET agg == ENABLED AggregatorStep
    IN /\ lock \in Workers \cup {None}
       /\ LockHeldOnlyInClaim
       /\ WorkerBlocksOnlyOnLock(agg)
       /\ AggregatorBlocksOnlyOnEmptyChannel(agg)
       /\ Running => (agg \/ \E w \in Workers : WorkerCanStep(w))

C14_Witness ==
    /\ gen_pc = "recv" /\ rx = << >> /\ ~ENABLED AggregatorStep
    /\ lock = 0 /\ wpc[0] = "locked"
    /\ wpc[1] = "claim" /\ ~ENABLED Lock(1)
    /\ current_line = options.height

\* C16: for every valid configuration, width * height < 100 included, the
\* divisor of pos % (width * height / 100) is not 0 when the aggregator
\* handles a message, and the aggregator never aborts before out[i] = val.
C16_ProgressDivisorNonZero ==
    Valid(options) =>
        /\ (gen_pc = "recv" /\ rx # << >>) => ProgressDivisor(options) # 0
        /\ gen_pc # "panicked"

\* C17: for all positive 32-bit width and height the 32-bit product
\* width * height is the mathematical product (no wraparound modulo 2^32),
\* so the computation never overflows and the buffer has width * height slots.
C17_ProductExact ==
    /\ alloc.pc # "overflow_panic"
    /\ alloc.pc \in {"allocated", "sent", "written", "index_panic"} =>
          alloc.len \o Zero32 = WideProduct(alloc.width, alloc.height)

\* C15: every index y * width + x a worker emits for a pixel of the image is
\* below the length of the buffer main allocated, so out[index] never leaves
\* the buffer.
C15_IndexInBuffer ==
    /\ alloc.pc = "sent" => Less(alloc.i, alloc.len)
    /\ alloc.pc # "index_panic"

====
